---------------------------- MODULE Spec2Model ----------------------------
(***************************************************************************)
(* The segmented Sieve of Eratosthenes of count_primes.c:                  *)
(* count_primes_in_interval(), its helper find_small_primes() and its      *)
(* helper count_primes_in_interval_helper(), as a state machine whose      *)
(* program counter follows the lines of the source.                        *)
(*                                                                         *)
(* The three magnitudes of the program are scaled down together, keeping   *)
(* the order the source relies on:                                         *)
(*     MAX_SIEVE_LENGTH < upper_bound < INT64_MAX < upper_bound^2          *)
(* (2^30 < 1.42 * 2^31 < 2^63 - 1 < (1.42 * 2^31)^2 in the source).        *)
(***************************************************************************)
EXTENDS Integers, Sequences, FiniteSets, TLC

\* Scaled stand-in for MAX_SIEVE_LENGTH = 2^30 (count_primes.c:111).
MAX_SIEVE_LENGTH == 4

\* Scaled stand-in for upper_bound = (int64_t)(1.42 * 2^31), the extent of
\* the SMALL_PRIMES sieve (count_primes.c:119).
SmallPrimesExtent == 8

\* Scaled stand-in for the largest int64_t (2^63 - 1).
INT64_MAX == 31

INT64_MIN == -INT64_MAX - 1

Int64 == INT64_MIN..INT64_MAX

NULL == 0

(***************************************************************************)
(* int64_t arithmetic.                                                     *)
(***************************************************************************)

\* The value an out-of-range result wraps to in two's complement.
Wrap(x) == ((x - INT64_MIN) % (2 * (INT64_MAX + 1))) + INT64_MIN

\* a + b on int64_t.  Signed overflow is undefined: the build either keeps
\* the mathematical value (the sum stays in a wider temporary, or the
\* comparison it feeds is rewritten assuming no overflow) or wraps.
Add64(a, b) == IF a + b \in Int64 THEN {a + b} ELSE {a + b, Wrap(a + b)}

\* a % b of C: the remainder of the division truncated toward zero.
CRem(a, b) == IF a >= 0 THEN a % b ELSE 0 - ((0 - a) % b)

(***************************************************************************)
(* The sieve data structure of sieve.h: a length and one cell per index.   *)
(***************************************************************************)

\* create_sieve() followed by init_sieve(): every cell "possibly prime".
init_sieve(n) == [length |-> n, cells |-> [i \in 0..(n - 1) |-> TRUE]]

mark_composite(sieve, i) == [sieve EXCEPT !.cells[i] = FALSE]

prime_p(sieve, i) == sieve.cells[i]

\* The handle create_sieve() returns on success: a block not in use.
create_sieve(h) == CHOOSE k \in 1..(Cardinality(DOMAIN h) + 1) : k \notin DOMAIN h

\* The heap after destroy_sieve(s).
destroy_sieve(h, s) == [k \in (DOMAIN h) \ {s} |-> h[k]]

(***************************************************************************)
(* find_small_primes(): the basic sieve over [0, upper_bound).             *)
(***************************************************************************)

RECURSIVE MarkMultiples(_, _, _, _)
\* for (j = 2; i * j < upper_bound; ++j) mark_composite(sieve, i * j);
MarkMultiples(sieve, i, j, upper_bound) ==
  IF i * j < upper_bound
    THEN MarkMultiples(mark_composite(sieve, i * j), i, j + 1, upper_bound)
    ELSE sieve

RECURSIVE ScanSieve(_, _, _)
\* for (i = 2; i < upper_bound; ++i): skip composites, mark multiples.
ScanSieve(sieve, i, upper_bound) ==
  IF i >= upper_bound THEN sieve
  ELSE IF ~prime_p(sieve, i) THEN ScanSieve(sieve, i + 1, upper_bound)
  ELSE ScanSieve(MarkMultiples(sieve, i, 2, upper_bound), i + 1, upper_bound)

\* mark_composite(sieve, 0); mark_composite(sieve, 1);
MarkZeroOne(sieve) ==
  [sieve EXCEPT !.cells = [i \in DOMAIN @ |-> IF i \in {0, 1} THEN FALSE ELSE @[i]]]

\* The sieve find_small_primes() returns for a given upper bound.
BasicSieve(upper_bound) ==
  ScanSieve(MarkZeroOne(init_sieve(upper_bound)), 2, upper_bound)

(***************************************************************************)
(* count_primes_in_interval_helper(): one segment.                         *)
(***************************************************************************)

\* Mutant: the test 0 != kp_index is dropped.
FirstMultipleIndexNoTest(start, p) == p - CRem(start, p)

\* kp_index = start % p; if (0 != kp_index) kp_index = p - kp_index;
FirstMultipleIndex(start, p) ==
  LET r == CRem(start, p) IN IF 0 # r THEN p - r ELSE 0

\* Mutant: a first multiple that is p itself is not stepped over.
KpIndexNoSkip(start, p) == {FirstMultipleIndex(start, p)}

\* if (start + kp_index == p) kp_index += p;  one value per outcome of the
\* addition.
KpIndex(start, p) ==
  LET k == FirstMultipleIndex(start, p)
  IN  {IF sum = p THEN k + p ELSE k : sum \in Add64(start, k)}

RECURSIVE MarkedIndices(_, _, _)
\* for ( ; kp_index < length; kp_index += p): the indices handed to
\* mark_composite(large_primes, kp_index).
MarkedIndices(kp_index, p, length) ==
  IF kp_index < length
    THEN {kp_index} \cup MarkedIndices(kp_index + p, p, length)
    ELSE {}

\* LARGE_PRIMES after mark_composite() on each of the indices.
MarkAll(sieve, indices) ==
  [sieve EXCEPT !.cells = [i \in DOMAIN @ |-> IF i \in indices THEN FALSE ELSE @[i]]]

\* Mutant: LARGE_PRIMES is not destroyed.
KeepLarge(h, s) == h

\* destroy_sieve(large_primes);
FreeLarge(h, s) == destroy_sieve(h, s)

RECURSIVE CountFrom(_, _, _)
\* for (i = 0; i < length; ++i) if (prime_p(large_primes, i)) ++num_primes;
CountFrom(sieve, i, length) ==
  IF i < length
    THEN (IF prime_p(sieve, i) THEN 1 ELSE 0) + CountFrom(sieve, i + 1, length)
    ELSE 0

(***************************************************************************)
(* count_primes_in_interval(): the arithmetic of the segment loop.         *)
(***************************************************************************)

\* Mutant: start is moved to 2 and length is left as it was.
ClampLengthKept(s, l) == l

\* if (start < 2) { length -= 2 - start; start = 2; }
ClampLength(s, l) == IF s < 2 THEN l - (2 - s) ELSE l

ClampStart(s) == IF s < 2 THEN 2 ELSE s

\* Mutant: the next segment starts one past the end of this one.
NextStartSkip(s) == s + MAX_SIEVE_LENGTH + 1

\* start += MAX_SIEVE_LENGTH;
NextStart(s) == s + MAX_SIEVE_LENGTH

\* Mutant: the remaining length is reduced by one less than the segment.
NextLengthShort(l) == l - MAX_SIEVE_LENGTH + 1

\* length -= MAX_SIEVE_LENGTH;
NextLength(l) == l - MAX_SIEVE_LENGTH

\* Mutant: the loop also takes a remaining length of MAX_SIEVE_LENGTH.
MoreSegmentsOrEqual(l) == l >= MAX_SIEVE_LENGTH

\* while (length > MAX_SIEVE_LENGTH)
MoreSegments(l) == l > MAX_SIEVE_LENGTH

\* if (length <= 0) return 0;
EmptyInterval(l) == l <= 0

\* Mutant: the comparison is strict.
BelowTwoStrict(sum) == sum < 2

\* if (start + length <= 2) return 0;  sum is the value of start + length.
BelowTwo(sum) == sum <= 2

(***************************************************************************)
(* The caller: the arguments it may pass.                                  *)
(***************************************************************************)

\* The documented precondition: START+LENGTH does not overflow.  A call with
\* length <= 0 returns before the sum is formed, so any start is admitted.
ValidCall(s, l) == l <= 0 \/ s + l <= INT64_MAX

\* The admissible pairs of arguments with a length in lens.
ValidArgs(lens) == {a \in Int64 \X lens : ValidCall(a[1], a[2])}

\* One call on every admissible pair of arguments.
SingleCalls == {<<a>> : a \in ValidArgs(Int64)}

\* A call on an interval, then one on each part of it split at m.
SplitCallsOf(s, l) ==
  {<< <<s, l>>, <<s, m - s>>, <<m, s + l - m>> >> : m \in (s + 1)..(s + l - 1)}

SplitCalls == UNION {SplitCallsOf(a[1], a[2]) : a \in ValidArgs(2..INT64_MAX)}

(***************************************************************************)
(* State.                                                                  *)
(***************************************************************************)
VARIABLES
  calls,         \* the caller: the calls still to make, <<start, length>> each
  results,       \* the caller: the values returned so far
  pc,            \* the line the program is at
  start,         \* count_primes_in_interval: start
  length,        \* count_primes_in_interval: length
  num_primes,    \* count_primes_in_interval: num_primes
  small_primes,  \* count_primes_in_interval: small_primes (a handle or NULL)
  heap,          \* the sieves alive: handle -> sieve
  last,          \* the helper was called from line 278 (else from line 270)
  seg_start,     \* count_primes_in_interval_helper: start
  seg_length,    \* count_primes_in_interval_helper: length
  large_primes,  \* count_primes_in_interval_helper: large_primes
  p,             \* count_primes_in_interval_helper: p
  seg_primes,    \* count_primes_in_interval_helper: num_primes
  arg,           \* history: the arguments of the call in progress
  builds,        \* history: runs of find_small_primes() in this call
  segs,          \* history: the segments handed to the helper in this call
  marked         \* history: the prime last scanned and the indices it marked

vars == <<calls, results, pc, start, length, num_primes, small_primes, heap,
          last, seg_start, seg_length, large_primes, p, seg_primes,
          arg, builds, segs, marked>>

callerVars == <<calls, results>>
topVars == <<start, length, num_primes, small_primes>>
helperVars == <<last, seg_start, seg_length, large_primes, p, seg_primes>>
historyVars == <<arg, builds, segs, marked>>

NoMarks == [p |-> 0, indices |-> {}]

\* The state before the caller's first call.
Start ==
  /\ results = <<>>
  /\ pc = "idle"
  /\ start = 0 /\ length = 0 /\ num_primes = 0
  /\ small_primes = NULL
  /\ heap = <<>>
  /\ last = FALSE
  /\ seg_start = 0 /\ seg_length = 0
  /\ large_primes = NULL
  /\ p = 0
  /\ seg_primes = 0
  /\ arg = <<0, 0>>
  /\ builds = 0
  /\ segs = <<>>
  /\ marked = NoMarks

\* The caller makes one call.
Init == calls \in SingleCalls /\ Start

\* The caller makes one call, or three: an interval and its two parts.
InitSplit == calls \in SingleCalls \cup SplitCalls /\ Start

(***************************************************************************)
(* count_primes_in_interval(start, length)                                 *)
(***************************************************************************)

\* The caller calls count_primes_in_interval() on its next pair of arguments.
Call ==
  /\ pc = "idle"
  /\ calls # <<>>
  /\ start' = Head(calls)[1]
  /\ length' = Head(calls)[2]
  /\ calls' = Tail(calls)
  /\ arg' = Head(calls)
  /\ builds' = 0
  /\ segs' = <<>>
  /\ marked' = NoMarks
  /\ num_primes' = 0
  /\ pc' = "entry"
  /\ UNCHANGED <<results, small_primes, heap, helperVars>>

\* Lines 242-244: a nonpositive length returns 0.
ReturnEmpty ==
  /\ pc = "entry"
  /\ EmptyInterval(length)
  /\ results' = Append(results, 0)
  /\ pc' = "idle"
  /\ UNCHANGED <<calls, topVars, heap, helperVars, historyVars>>

\* Lines 249-251: a high endpoint of at most 2 returns 0.
ReturnBelowTwo ==
  /\ pc = "entry"
  /\ ~EmptyInterval(length)
  /\ \E sum \in Add64(start, length) : BelowTwo(sum)
  /\ results' = Append(results, 0)
  /\ pc' = "idle"
  /\ UNCHANGED <<calls, topVars, heap, helperVars, historyVars>>

\* Lines 254-257: the smallest value of start is 2.
Clamp ==
  /\ pc = "entry"
  /\ ~EmptyInterval(length)
  /\ \E sum \in Add64(start, length) : ~BelowTwo(sum)
  /\ start' = ClampStart(start)
  /\ length' = ClampLength(start, length)
  /\ pc' = "build"
  /\ UNCHANGED <<callerVars, num_primes, small_primes, heap, helperVars, historyVars>>

\* Lines 261-264 with find_small_primes(), lines 118-152.
FindSmallPrimes ==
  /\ pc = "build"
  /\ small_primes' = create_sieve(heap)
  /\ heap' = heap @@ (small_primes' :> BasicSieve(SmallPrimesExtent))
  /\ num_primes' = 0
  /\ builds' = builds + 1
  /\ pc' = "loop"
  /\ UNCHANGED <<callerVars, start, length, helperVars, arg, segs, marked>>

\* Lines 120-126: create_sieve() returns NULL and the process exits.
FindSmallPrimesFails ==
  /\ pc = "build"
  /\ pc' = "exit"
  /\ UNCHANGED <<callerVars, topVars, heap, helperVars, historyVars>>

\* Lines 267-271: a segment of MAX_SIEVE_LENGTH is handed to the helper.
SegmentFull ==
  /\ pc = "loop"
  /\ MoreSegments(length)
  /\ seg_start' = start
  /\ seg_length' = MAX_SIEVE_LENGTH
  /\ last' = FALSE
  /\ segs' = Append(segs, <<start, MAX_SIEVE_LENGTH>>)
  /\ pc' = "create"
  /\ UNCHANGED <<callerVars, topVars, heap, large_primes, p, seg_primes,
                 arg, builds, marked>>

\* Line 278: the final segment is handed to the helper.
SegmentFinal ==
  /\ pc = "loop"
  /\ ~MoreSegments(length)
  /\ seg_start' = start
  /\ seg_length' = length
  /\ last' = TRUE
  /\ segs' = Append(segs, <<start, length>>)
  /\ pc' = "create"
  /\ UNCHANGED <<callerVars, topVars, heap, large_primes, p, seg_primes,
                 arg, builds, marked>>

(***************************************************************************)
(* count_primes_in_interval_helper(start, length, small_primes)            *)
(***************************************************************************)

\* Lines 172-184: LARGE_PRIMES is created and initialized; the scan starts.
CreateLarge ==
  /\ pc = "create"
  /\ large_primes' = create_sieve(heap)
  /\ heap' = heap @@ (large_primes' :> init_sieve(seg_length))
  /\ p' = 2
  /\ marked' = NoMarks
  /\ pc' = "scan"
  /\ UNCHANGED <<callerVars, topVars, last, seg_start, seg_length, seg_primes,
                 arg, builds, segs>>

\* Lines 173-178: create_sieve() returns NULL and the process exits.
CreateLargeFails ==
  /\ pc = "create"
  /\ pc' = "exit"
  /\ UNCHANGED <<callerVars, topVars, heap, helperVars, historyVars>>

\* Lines 184-192: an entry of SMALL_PRIMES marked composite is skipped.
ScanComposite ==
  /\ pc = "scan"
  /\ p < heap[small_primes].length
  /\ ~prime_p(heap[small_primes], p)
  /\ p' = p + 1
  /\ UNCHANGED <<pc, callerVars, topVars, heap, last, seg_start, seg_length,
                 large_primes, seg_primes, historyVars>>

\* Lines 184-214: the multiples of the prime p in the segment are marked.
ScanPrime ==
  /\ pc = "scan"
  /\ p < heap[small_primes].length
  /\ prime_p(heap[small_primes], p)
  /\ \E kp_index \in KpIndex(seg_start, p) :
       LET indices == MarkedIndices(kp_index, p, seg_length)
       IN  /\ heap' = [heap EXCEPT ![large_primes] = MarkAll(@, indices)]
           /\ marked' = [p |-> p, indices |-> indices]
  /\ p' = p + 1
  /\ UNCHANGED <<pc, callerVars, topVars, last, seg_start, seg_length,
                 large_primes, seg_primes, arg, builds, segs>>

\* Lines 217-231: the primes of LARGE_PRIMES are counted, LARGE_PRIMES is
\* destroyed and the count returned.
CountSegment ==
  /\ pc = "scan"
  /\ ~(p < heap[small_primes].length)
  /\ seg_primes' = CountFrom(heap[large_primes], 0, seg_length)
  /\ heap' = FreeLarge(heap, large_primes)
  /\ large_primes' = NULL
  /\ pc' = "returned"
  /\ UNCHANGED <<callerVars, topVars, last, seg_start, seg_length, p,
                 historyVars>>

(***************************************************************************)
(* count_primes_in_interval(), after the helper returns                    *)
(***************************************************************************)

\* The count is added, the next segment is set up and control goes to line.
AdvanceTo(line) ==
  /\ pc = "returned"
  /\ ~last
  /\ num_primes' = num_primes + seg_primes
  /\ start' = NextStart(start)
  /\ length' = NextLength(length)
  /\ pc' = line
  /\ UNCHANGED <<callerVars, small_primes, heap, helperVars, historyVars>>

\* Mutant: SMALL_PRIMES is built again for the next segment.
AdvanceRebuild == AdvanceTo("build")

\* Lines 270-275: back to the loop test of line 267.
Advance == AdvanceTo("loop")

\* Lines 278-283: the last count is added, SMALL_PRIMES is destroyed and the
\* total returned.
Finish ==
  /\ pc = "returned"
  /\ last
  /\ num_primes' = num_primes + seg_primes
  /\ heap' = destroy_sieve(heap, small_primes)
  /\ small_primes' = NULL
  /\ results' = Append(results, num_primes')
  /\ pc' = "idle"
  /\ UNCHANGED <<calls, start, length, helperVars, historyVars>>

Next ==
  \/ Call
  \/ ReturnEmpty
  \/ ReturnBelowTwo
  \/ Clamp
  \/ FindSmallPrimes
  \/ FindSmallPrimesFails
  \/ SegmentFull
  \/ SegmentFinal
  \/ CreateLarge
  \/ CreateLargeFails
  \/ ScanComposite
  \/ ScanPrime
  \/ CountSegment
  \/ Advance
  \/ Finish

Spec == Init /\ [][Next]_vars

SpecSplit == InitSplit /\ [][Next]_vars

\* The program is sequential and never waits: a step that can be taken is.
SpecLive == Spec /\ WF_vars(Next)

(***************************************************************************)
(* Vocabulary of the properties.                                           *)
(***************************************************************************)

\* The trial-division oracle.
IsPrime(n) == n >= 2 /\ \A d \in 2..(n - 1) : n % d # 0

\* The number of primes q with lo <= q < hi.
PrimeCount(lo, hi) == Cardinality({n \in lo..(hi - 1) : IsPrime(n)})

Max(a, b) == IF a >= b THEN a ELSE b

\* A call has returned: its arguments are arg, its value is Returned.
HasReturned == pc = "idle" /\ results # <<>>

Returned == results[Len(results)]

\* The call in arg returns at one of the two tests of lines 242 and 249.
ReturnsEarly == arg[2] <= 0 \/ arg[1] + arg[2] <= 2

\* Between the return of find_small_primes() and destroy_sieve(small_primes).
InSegmentLoop == pc \in {"loop", "create", "scan", "returned"}

\* The primes the SMALL_PRIMES sieve records.
SmallPrimes == {q \in 2..(SmallPrimesExtent - 1) : IsPrime(q)}

\* The number of entries in [s, s + l) that one pass of the basic sieve over
\* [0, s + l) leaves marked prime.
NaiveCount(s, l) ==
  LET sieve == BasicSieve(s + l)
  IN  Cardinality({i \in Max(s, 0)..(s + l - 1) : prime_p(sieve, i)})

(***************************************************************************)
(* The properties.                                                         *)
(***************************************************************************)

\* C1: when start+length does not overflow and is at most the square of the
\* extent of the small-primes table, the value returned is the number of
\* primes q with max(start, 2) <= q < start+length, as trial division
\* counts them.
C1_ExactCount ==
  HasReturned =>
    ((arg[1] + arg[2] \in Int64
      /\ arg[1] + arg[2] <= SmallPrimesExtent * SmallPrimesExtent)
       => Returned = PrimeCount(Max(arg[1], 2), arg[1] + arg[2]))

\* count(0, 10) has returned 4, from more than one segment.
C1_Witness ==
  HasReturned /\ arg = <<0, 10>> /\ Returned = 4 /\ Len(segs) >= 2

\* C2: the count of an interval is the sum of the counts of its two parts,
\* wherever it is split.
C2_Additive ==
  (pc = "idle" /\ Len(results) = 3) => results[1] = results[2] + results[3]

\* An interval starting below 2, split where both parts hold primes.
C2_Witness ==
  /\ pc = "idle" /\ Len(results) = 3
  /\ results[1] >= 4 /\ results[2] > 0 /\ results[3] > 0

\* An interval split at a point below 2: the left part counts nothing.
C2_WitnessBelowTwo ==
  /\ pc = "idle" /\ Len(results) = 3
  /\ arg[1] < 2 /\ results[2] = 0 /\ results[3] >= 4

C4_ZeroForEmpty ==
  ReturnsEarly =>
    /\ pc \in {"idle", "entry"}
    /\ HasReturned => Returned = 0

\* count(-5, 7) has returned 0.
C4_Witness == HasReturned /\ arg = <<0 - 5, 7>> /\ Returned = 0

\* count(INT64_MIN, -1), whose start+length is out of range, has returned 0.
C4_WitnessNegative == HasReturned /\ arg = <<INT64_MIN, 0 - 1>> /\ Returned = 0

\* C5: when an allocation fails, every sieve the call constructed has been
\* released by the time the failure leaves the call.
C5_ReleasedOnFailure == pc = "exit" => DOMAIN heap = {}

\* C6, as stated: at every point of a call one of the two sieves is alive,
\* and no more than two sieves are.
C6_NeverBothAbsent ==
  pc \notin {"idle", "exit"} =>
    /\ small_primes # NULL \/ large_primes # NULL
    /\ Cardinality(DOMAIN heap) <= 2

\* C6, amended: from the return of find_small_primes() to the destruction of
\* the table the table is alive; before that no sieve is; the sieves alive
\* are always among the table and the current segment sieve, and the segment
\* sieve of one segment is gone when the next is about to be created.
C6_AtMostTheTwo ==
  /\ DOMAIN heap \subseteq {small_primes, large_primes} \ {NULL}
  /\ InSegmentLoop => small_primes \in DOMAIN heap
  /\ pc = "scan" => large_primes \in DOMAIN heap /\ large_primes # small_primes
  /\ pc \in {"loop", "create", "returned"} => large_primes = NULL
  /\ pc \in {"idle", "entry", "build"} => DOMAIN heap = {}

\* The second segment of a call is being sieved with both sieves alive.
C6_Witness ==
  pc = "scan" /\ Len(segs) >= 2 /\ Cardinality(DOMAIN heap) = 2

\* C7, as stated: every call that returns has built the small-primes table
\* exactly once.
C7_ExactlyOnce == HasReturned => builds = 1

\* C7, amended: a call that returns at one of its two entry tests never
\* builds the table; every other call builds it exactly once, before its
\* first segment, however many segments follow.
C7_OncePastEntry ==
  /\ builds <= 1
  /\ InSegmentLoop => builds = 1
  /\ HasReturned => builds = (IF ReturnsEarly THEN 0 ELSE 1)

\* A call of three segments or more has returned.
C7_Witness == HasReturned /\ Len(segs) >= 3 /\ builds = 1

\* C8: every segment handed to the helper starts at 2 or above and has a
\* length in 1..MAX_SIEVE_LENGTH, all but the last being full; the first
\* starts at max(start, 2), each next one where the one before ends, the last
\* ends at start+length; and start + length is the same at every iteration.
C8_Segments ==
  /\ \A i \in 1..Len(segs) :
       /\ segs[i][1] >= 2
       /\ 0 < segs[i][2] /\ segs[i][2] <= MAX_SIEVE_LENGTH
       /\ i = 1 => segs[i][1] = Max(arg[1], 2)
       /\ i > 1 => /\ segs[i][1] = segs[i - 1][1] + segs[i - 1][2]
                   /\ segs[i - 1][2] = MAX_SIEVE_LENGTH
  /\ InSegmentLoop => start + length = arg[1] + arg[2]
  /\ (pc \in {"create", "scan"} \/ (pc = "returned" /\ ~last)) =>
       /\ segs # <<>>
       /\ segs[Len(segs)] = <<seg_start, seg_length>>
       /\ seg_start = start
  /\ (HasReturned /\ ~ReturnsEarly) =>
       /\ segs # <<>>
       /\ segs[Len(segs)][1] + segs[Len(segs)][2] = arg[1] + arg[2]

\* A call with start below 2 has returned after three segments or more.
C8_Witness == HasReturned /\ arg[1] < 2 /\ Len(segs) >= 3

\* C9: the indices marked for a prime p are those of the multiples of p in
\* the segment that are greater than p, all within the segment sieve; and
\* a prime of the table that lies in the segment is never marked composite.
C9_MarksMultiplesAboveP ==
  pc = "scan" =>
    /\ marked.p # 0 =>
         /\ marked.indices =
              {k \in 0..(seg_length - 1) :
                 (seg_start + k) % marked.p = 0 /\ seg_start + k > marked.p}
         /\ marked.indices \subseteq DOMAIN heap[large_primes].cells
         /\ \A k \in marked.indices : ~prime_p(heap[large_primes], k)
    /\ \A q \in SmallPrimes :
         (seg_start <= q /\ q < seg_start + seg_length)
           => prime_p(heap[large_primes], q - seg_start)

\* 3 was scanned over the segment [2, 2 + MAX_SIEVE_LENGTH): 3 itself is in
\* the segment and is not marked.
C9_Witness ==
  /\ pc = "scan" /\ seg_start = 2 /\ seg_length = MAX_SIEVE_LENGTH
  /\ marked.p = 3 /\ 1 \notin marked.indices
  /\ prime_p(heap[large_primes], 1)

\* C10: a call in progress ends (it returns, or an allocation fails); every
\* iteration of the loop takes MAX_SIEVE_LENGTH off a remaining length that
\* stays positive; the final segment is all that remains; and a call of
\* clamped length L > 0 counts ceil(L / MAX_SIEVE_LENGTH) segments.
C10_Terminates ==
  /\ (pc = "entry") ~> (pc \in {"idle", "exit"})
  /\ [][Advance => (length' = length - MAX_SIEVE_LENGTH /\ length' > 0
                    /\ length' < length)]_vars
  /\ [][Finish => seg_length = length]_vars
  /\ [](HasReturned /\ ~ReturnsEarly =>
          LET L == arg[1] + arg[2] - Max(arg[1], 2)
          IN  Len(segs) = (L + MAX_SIEVE_LENGTH - 1) \div MAX_SIEVE_LENGTH)

\* A call of exactly three full segments has returned.
C10_Witness ==
  /\ HasReturned /\ Len(segs) = 3
  /\ arg[1] + arg[2] - Max(arg[1], 2) = 3 * MAX_SIEVE_LENGTH

=============================================================================
